---- MODULE Spec2Model ----
(***************************************************************************)
(* Model of the GraphQL mutation resolvers of src/resolvers/Mutation.js.   *)
(*                                                                         *)
(* The state is the content of the backing store (users, cart items), the  *)
(* clock read by Date.now(), the addToCart calls suspended between their   *)
(* query and their write, and the outcome of the last resolver that        *)
(* settled (result or thrown error, cookie set on its response, database   *)
(* calls it issued).                                                       *)
(***************************************************************************)
EXTENDS Integers, Sequences, FiniteSets, TLC

VARIABLES users, cartItems, nextCartId, pending, now, nextToken, resp,
          adds, disturbed, calls

\* users, cartItems : the rows of the store (nextCartId: next CartItem id)
\* pending          : addToCart calls suspended after their cartItems query
\* now              : the value Date.now() returns
\* nextToken        : the next value randomBytes yields
\* resp             : the outcome of the resolver that settled last
\* calls            : number of addToCart calls started (bounded by MaxAdds)
\* adds, disturbed  : history of the cart, written by no resolver and read
\*                    only by the properties: adds[pair] counts the
\*                    addToCart writes done since the pair last had no row,
\*                    disturbed holds the pairs for which an addToCart call
\*                    started while another one for the pair was suspended
vars == <<users, cartItems, nextCartId, pending, now, nextToken, resp,
          adds, disturbed, calls>>

(***************************************************************************)
(* Bounds of the model.                                                    *)
(***************************************************************************)
MaxUsers == 2
MaxTokens == 2
MaxTicks == 3
MaxAdds == 3
MaxPending == 2

(***************************************************************************)
(* Values.                                                                 *)
(***************************************************************************)
Null == <<>>
Some(v) == <<v>>
NoUser == 0

Hour == 3600000
TickStep == (3 * Hour) \div 4
StartTime == 10 * Hour

Emails == {"Bob@x.io", "bob@x.io"}
Passwords == {"pw1", "pw2"}
Salts == {"s1"}   \* the salts bcrypt.hash draws from
Permissions == {"ADMIN", "USER", "PERMISSIONUPDATE"}
Items == {"item1", "item2"}

toLowerCase(s) == IF s = "Bob@x.io" THEN "bob@x.io" ELSE s

\* bcrypt.hash(password, 10): a salted digest; bcrypt.compare recomputes
\* the digest of the candidate under the salt kept in the hash.
bcryptHash(password, salt) == [salt |-> salt, digest |-> <<salt, password>>]
bcryptCompare(password, hash) == hash.digest = <<hash.salt, password>>

\* jwt.sign(payload, process.env.APP_SECRET)
jwtSign(payload) == [payload |-> payload, key |-> "APP_SECRET"]

\* ctx.response.cookie("token", token, { httpOnly: true, maxAge: 1 year })
NoCookie == [name |-> "", value |-> Null, httpOnly |-> FALSE]
SetCookie(token) == [name |-> "token", value |-> Some(token), httpOnly |-> TRUE]
ClearedCookie == [name |-> "token", value |-> Null, httpOnly |-> FALSE]

\* what a resolver returns: a User, a CartItem or a { message } object
Nothing == [user |-> 0, cartItem |-> 0, message |-> ""]
ReturnsUser(id) == [user |-> id, cartItem |-> 0, message |-> ""]
ReturnsCartItem(id) == [user |-> 0, cartItem |-> id, message |-> ""]
ReturnsMessage(text) == [user |-> 0, cartItem |-> 0, message |-> text]

Response(op, caller, args, error, value, cookie, dbCalls) ==
    [op |-> op, caller |-> caller, args |-> args, error |-> error,
     value |-> value, cookie |-> cookie, dbCalls |-> dbCalls]

(***************************************************************************)
(* The store: users is the sequence of User rows (the id of a row is its   *)
(* position), email is a unique field.                                     *)
(***************************************************************************)
UserIds == DOMAIN users
UsersWithEmail(email) == {id \in UserIds : users[id].email = email}
queryUser(email) ==
    IF UsersWithEmail(email) = {} THEN NoUser
    ELSE CHOOSE id \in UsersWithEmail(email) : TRUE

Callers == UserIds \cup {NoUser}

TypeOK ==
    /\ \A id \in UserIds :
          /\ users[id].email \in Emails
          /\ users[id].permissions \subseteq Permissions
          /\ Len(users[id].resetToken) <= 1
          /\ Len(users[id].resetTokenExpiry) <= 1
    /\ now >= StartTime
    /\ nextToken \in 1..(MaxTokens + 1)

EmailsUnique ==
    \A a, b \in UserIds : users[a].email = users[b].email => a = b

(***************************************************************************)
(* signup                                                                  *)
(***************************************************************************)
\* the data object of createUser: { ...args, password, permissions }
SignupDataArgsLast(args, password) ==
    [f \in DOMAIN args \cup {"password", "permissions"} |->
        IF f \in DOMAIN args /\ f # "password" THEN args[f]
        ELSE IF f = "password" THEN password
        ELSE [set |-> {"USER"}]]
SignupData(args, password) ==
    [f \in DOMAIN args \cup {"password", "permissions"} |->
        IF f = "password" THEN password
        ELSE IF f = "permissions" THEN [set |-> {"USER"}]
        ELSE args[f]]

createUser(data) ==
    [email |-> data.email, password |-> data.password,
     permissions |-> data.permissions.set,
     resetToken |-> Null, resetTokenExpiry |-> Null]

SignupArgs ==
    [email : Emails, password : Passwords]
    \cup [email : Emails, password : Passwords,
          permissions : {[set |-> {"ADMIN"}]}]

signup(args, salt) ==
    LET lowered == toLowerCase(args.email)   \* computed and dropped
        password == bcryptHash(args.password, salt)
        data == SignupData(args, password)
        id == Len(users) + 1
    IN  /\ Len(users) < MaxUsers
        /\ IF UsersWithEmail(data.email) # {}
           THEN /\ resp' = Response("signup", NoUser, args,
                                    "unique constraint", Nothing, NoCookie,
                                    <<"mutation.createUser">>)
                /\ UNCHANGED users
           ELSE /\ users' = Append(users, createUser(data))
                /\ resp' = Response("signup", NoUser, args, "", ReturnsUser(id),
                                    SetCookie(jwtSign([userId |-> id])),
                                    <<"mutation.createUser">>)
        /\ UNCHANGED <<cartItems, nextCartId, pending, now, nextToken,
                       adds, disturbed, calls>>

Signup == \E args \in SignupArgs, salt \in Salts : signup(args, salt)

(***************************************************************************)
(* signin                                                                  *)
(***************************************************************************)
\* jwt.sign({ userId: user.id }, process.env.APP_SECRET)
SigninTokenNoId(user) == jwtSign([userId |-> NoUser])
SigninToken(user) == jwtSign([userId |-> user])

signin(email, password) ==
    LET user == queryUser(email)
    IN  /\ resp' =
             IF user = NoUser
             THEN Response("signin", NoUser,
                           [email |-> email, password |-> password],
                           "No such user found", Nothing, NoCookie,
                           <<"query.user">>)
             ELSE IF ~bcryptCompare(password, users[user].password)
             THEN Response("signin", NoUser,
                           [email |-> email, password |-> password],
                           "Invalid Password!", Nothing, NoCookie,
                           <<"query.user">>)
             ELSE Response("signin", NoUser,
                           [email |-> email, password |-> password],
                           "", ReturnsUser(user),
                           SetCookie(SigninToken(user)),
                           <<"query.user">>)
        /\ UNCHANGED <<users, cartItems, nextCartId, pending, now,
                       nextToken, adds, disturbed, calls>>

Signin == \E email \in Emails, password \in Passwords : signin(email, password)

(***************************************************************************)
(* signout                                                                 *)
(***************************************************************************)
signout ==
    /\ resp' = Response("signout", NoUser, <<>>, "", ReturnsMessage("Goodbye!"),
                        ClearedCookie, <<>>)
    /\ UNCHANGED <<users, cartItems, nextCartId, pending, now, nextToken,
                   adds, disturbed, calls>>

(***************************************************************************)
(* requestReset                                                            *)
(***************************************************************************)
\* randomBytes(20).toString("hex"): 160 random bits, modelled as a value
\* never issued before.
\* await transport.sendMail(...): a rejected send is rethrown by the await
awaitSendMailSwallowed(mailOk) == ""
awaitSendMail(mailOk) == IF mailOk THEN "" ELSE "sendMail rejected"

requestReset(email, mailOk) ==
    /\ UNCHANGED <<cartItems, nextCartId, pending, now, adds, disturbed, calls>>
    /\ LET user == queryUser(email)
           resetToken == nextToken
           resetTokenExpiry == now + 3600000
       IN  IF user = NoUser
           THEN /\ resp' = Response("requestReset", NoUser, [email |-> email],
                                    "No such user found", Nothing, NoCookie,
                                    <<"query.user">>)
                /\ UNCHANGED <<users, nextToken>>
           ELSE /\ nextToken <= MaxTokens
                /\ nextToken' = nextToken + 1
                /\ users' = [users EXCEPT
                               ![user].resetToken = Some(resetToken),
                               ![user].resetTokenExpiry = Some(resetTokenExpiry)]
                /\ resp' =
                     IF awaitSendMail(mailOk) = ""
                     THEN Response("requestReset", NoUser, [email |-> email],
                                   "", ReturnsMessage("Thank you!"), NoCookie,
                                   <<"query.user", "mutation.updateUser">>)
                     ELSE Response("requestReset", NoUser, [email |-> email],
                                   awaitSendMail(mailOk), Nothing, NoCookie,
                                   <<"query.user", "mutation.updateUser">>)

RequestReset ==
    \E email \in Emails, mailOk \in BOOLEAN : requestReset(email, mailOk)

(***************************************************************************)
(* resetPassword                                                           *)
(***************************************************************************)
\* query.users({ where: { resetToken, resetTokenExpiry_gte } })
queryUsersByExpiryOnly(resetToken, expiryGte) ==
    {id \in UserIds :
        /\ users[id].resetTokenExpiry # Null
        /\ users[id].resetTokenExpiry[1] >= expiryGte}
queryUsersByReset(resetToken, expiryGte) ==
    {id \in UserIds :
        /\ users[id].resetToken = Some(resetToken)
        /\ users[id].resetTokenExpiry # Null
        /\ users[id].resetTokenExpiry[1] >= expiryGte}

Min(S) == CHOOSE x \in S : \A y \in S : x <= y

\* data of the updateUser: { password, resetToken: null, resetTokenExpiry: null }
ResetUpdateKeepsToken(user, password) == [user EXCEPT !.password = password]
ResetUpdate(user, password) ==
    [user EXCEPT !.password = password,
                 !.resetToken = Null,
                 !.resetTokenExpiry = Null]

resetPassword(args, salt) ==
    /\ UNCHANGED <<cartItems, nextCartId, pending, now, nextToken, adds,
                   disturbed, calls>>
    /\ IF args.password # args.confirmPassword
       THEN /\ resp' = Response("resetPassword", NoUser, args,
                                "Your passwords don't match", Nothing, NoCookie,
                                <<>>)
            /\ UNCHANGED users
       ELSE LET found == queryUsersByReset(args.resetToken, now - 3600000)
            IN  IF found = {}
                THEN /\ resp' = Response("resetPassword", NoUser, args,
                                         "This token is either invalid or expired!",
                                         Nothing, NoCookie, <<"query.users">>)
                     /\ UNCHANGED users
                ELSE LET user == Min(found)
                         password == bcryptHash(args.password, salt)
                         updatedUser == queryUser(users[user].email)
                     IN  /\ users' = [users EXCEPT ![updatedUser] =
                                         ResetUpdate(users[updatedUser], password)]
                         /\ resp' = Response("resetPassword", NoUser, args, "",
                                             ReturnsUser(updatedUser),
                                             SetCookie(jwtSign([userId |-> updatedUser])),
                                             <<"query.users", "mutation.updateUser">>)

ResetArgs ==
    [resetToken : 0..MaxTokens, password : Passwords,
     confirmPassword : Passwords]

ResetPassword ==
    \E args \in ResetArgs, salt \in Salts : resetPassword(args, salt)

(***************************************************************************)
(* addToCart: the handler suspends between its cartItems query and its     *)
(* write; pending holds the calls suspended there, with what they read.    *)
(***************************************************************************)
CartIds == DOMAIN cartItems
Pair(userId, item) == <<userId, item>>
RowsOf(userId, item) ==
    {id \in CartIds : cartItems[id].user = userId /\ cartItems[id].item = item}

\* query.cartItems({ where: { user, item } }), then the first element
queryCartItemsNoMatch(userId, item) == Null
queryCartItems(userId, item) ==
    IF RowsOf(userId, item) = {} THEN Null
    ELSE LET id == Min(RowsOf(userId, item))
         IN  Some([id |-> id, quantity |-> cartItems[id].quantity])

\* quantity of a CartItem created without one (datamodel default)
DefaultQuantity == 1

PendingFor(userId, item) ==
    {k \in DOMAIN pending :
        pending[k].userId = userId /\ pending[k].id = item}

RemoveAt(seq, k) == SubSeq(seq, 1, k - 1) \o SubSeq(seq, k + 1, Len(seq))

addToCartUnauthenticated(item) ==
    /\ resp' = Response("addToCart", NoUser, [id |-> item],
                        "You must be signed in to add items!", Nothing,
                        NoCookie, <<>>)
    /\ UNCHANGED <<users, cartItems, nextCartId, pending, now, nextToken,
                   adds, disturbed, calls>>

addToCartQuery(userId, item) ==
    /\ userId # NoUser
    /\ calls < MaxAdds
    /\ Len(pending) < MaxPending
    /\ calls' = calls + 1
    /\ pending' = Append(pending,
                         [userId |-> userId, id |-> item,
                          existingCartItem |-> queryCartItems(userId, item)])
    /\ disturbed' = IF PendingFor(userId, item) # {}
                    THEN disturbed \cup {Pair(userId, item)}
                    ELSE disturbed
    /\ UNCHANGED <<users, cartItems, nextCartId, now, nextToken, resp, adds>>

\* data: { quantity: existingCartItem.quantity + 1 }
IncrementedQuantityStale(existingCartItem) == existingCartItem.quantity
IncrementedQuantity(existingCartItem) == existingCartItem.quantity + 1

addToCartWrite(k) ==
    LET call == pending[k]
        pair == Pair(call.userId, call.id)
    IN  /\ pending' = RemoveAt(pending, k)
        /\ IF call.existingCartItem # Null
           THEN LET existingCartItem == call.existingCartItem[1]
                IN  IF existingCartItem.id \in CartIds
                    THEN /\ cartItems' =
                               [cartItems EXCEPT ![existingCartItem.id].quantity =
                                   IncrementedQuantity(existingCartItem)]
                         /\ adds' = [adds EXCEPT ![pair] = @ + 1]
                         /\ resp' = Response("addToCart", call.userId,
                                             [id |-> call.id], "",
                                             ReturnsCartItem(existingCartItem.id), NoCookie,
                                             <<"query.cartItems",
                                               "mutation.updateCartItem">>)
                         /\ UNCHANGED nextCartId
                    ELSE /\ resp' = Response("addToCart", call.userId,
                                             [id |-> call.id],
                                             "No Node for the model CartItem",
                                             Nothing, NoCookie,
                                             <<"query.cartItems",
                                               "mutation.updateCartItem">>)
                         /\ UNCHANGED <<cartItems, nextCartId, adds>>
           ELSE /\ cartItems' = cartItems @@
                       (nextCartId :> [user |-> call.userId, item |-> call.id,
                                       quantity |-> DefaultQuantity])
                /\ nextCartId' = nextCartId + 1
                /\ adds' = [adds EXCEPT ![pair] = @ + 1]
                /\ resp' = Response("addToCart", call.userId,
                                    [id |-> call.id], "", ReturnsCartItem(nextCartId),
                                    NoCookie,
                                    <<"query.cartItems",
                                      "mutation.createCartItem">>)
        /\ UNCHANGED <<users, now, nextToken, disturbed, calls>>

AddToCartUnauthenticated == \E item \in Items : addToCartUnauthenticated(item)
AddToCartQuery ==
    \E userId \in UserIds, item \in Items : addToCartQuery(userId, item)
AddToCartWrite == \E k \in DOMAIN pending : addToCartWrite(k)

(***************************************************************************)
(* removeFromCart                                                          *)
(***************************************************************************)
\* cartItem.user.id !== ctx.request.userId is the refusal
OwnsCartItemUnchecked(cartItem, userId) == cartItem.user = cartItem.user
OwnsCartItem(cartItem, userId) == cartItem.user = userId

removeFromCart(caller, id) ==
    /\ UNCHANGED <<users, nextCartId, pending, now, nextToken, disturbed,
                   calls>>
    /\ IF id \notin CartIds
       THEN /\ resp' = Response("removeFromCart", caller, [id |-> id],
                                "No Cart Item Found!", Nothing, NoCookie,
                                <<"query.cartItem">>)
            /\ UNCHANGED <<cartItems, adds>>
       ELSE IF ~OwnsCartItem(cartItems[id], caller)
       THEN /\ resp' = Response("removeFromCart", caller, [id |-> id],
                                "Cheating :)", Nothing, NoCookie,
                                <<"query.cartItem">>)
            /\ UNCHANGED <<cartItems, adds>>
       ELSE /\ cartItems' = [c \in CartIds \ {id} |-> cartItems[c]]
            /\ adds' = [adds EXCEPT
                           ![Pair(cartItems[id].user, cartItems[id].item)] = 0]
            /\ resp' = Response("removeFromCart", caller, [id |-> id], "",
                                ReturnsCartItem(id), NoCookie,
                                <<"query.cartItem", "mutation.deleteCartItem">>)

RemoveFromCart ==
    \E caller \in Callers, id \in 1..nextCartId : removeFromCart(caller, id)

(***************************************************************************)
(* updatePermissions                                                       *)
(***************************************************************************)
\* hasPermission(user, permissionsNeeded) of ../utils: throws unless the
\* user holds at least one of the permissions needed.
hasPermission(user, permissionsNeeded) ==
    user.permissions \cap permissionsNeeded # {}

\* data: { permissions: { set: args.permissions } }
PermissionsAdded(old, permissions) == old \cup permissions
PermissionsSet(old, permissions) == permissions

updatePermissions(caller, args) ==
    /\ UNCHANGED <<cartItems, nextCartId, pending, now, nextToken, adds,
                   disturbed, calls>>
    /\ IF caller = NoUser
       THEN /\ resp' = Response("updatePermissions", caller, args,
                                "You must be logged in!", Nothing, NoCookie, <<>>)
            /\ UNCHANGED users
       ELSE LET currentUser == users[caller]
            IN  IF ~hasPermission(currentUser, {"ADMIN", "PERMISSIONUPDATE"})
                THEN /\ resp' = Response("updatePermissions", caller, args,
                                         "You do not have sufficient permissions",
                                         Nothing, NoCookie, <<"query.user">>)
                     /\ UNCHANGED users
                ELSE IF args.userId \notin UserIds
                THEN /\ resp' = Response("updatePermissions", caller, args,
                                         "No Node for the model User", Nothing,
                                         NoCookie,
                                         <<"query.user", "mutation.updateUser">>)
                     /\ UNCHANGED users
                ELSE /\ users' = [users EXCEPT ![args.userId].permissions =
                                    PermissionsSet(@, args.permissions)]
                     /\ resp' = Response("updatePermissions", caller, args, "",
                                         ReturnsUser(args.userId), NoCookie,
                                         <<"query.user", "mutation.updateUser">>)

PermissionArgs ==
    [userId : 1..(Len(users) + 1), permissions : SUBSET Permissions]

UpdatePermissions ==
    \E caller \in Callers, args \in PermissionArgs :
        updatePermissions(caller, args)

(***************************************************************************)
(* The clock read by Date.now().                                           *)
(***************************************************************************)
Tick ==
    /\ now < StartTime + MaxTicks * TickStep
    /\ now' = now + TickStep
    /\ UNCHANGED <<users, cartItems, nextCartId, pending, nextToken, resp,
                   adds, disturbed, calls>>

NoResponse == Response("none", NoUser, <<>>, "", Nothing, NoCookie, <<>>)

Empty ==
    /\ cartItems = <<>>
    /\ nextCartId = 1
    /\ pending = <<>>
    /\ now = StartTime
    /\ nextToken = 1
    /\ resp = NoResponse
    /\ adds = [p \in (1..MaxUsers) \X Items |-> 0]
    /\ disturbed = {}
    /\ calls = 0

\* the store right after deployment: no rows
Init ==
    /\ users = <<>>
    /\ Empty

\* a store in which MaxUsers users have signed up
SeedUser(n, permissions) ==
    [email |-> IF n = 1 THEN "bob@x.io" ELSE "Bob@x.io",
     password |-> bcryptHash("pw1", "s1"),
     permissions |-> permissions,
     resetToken |-> Null, resetTokenExpiry |-> Null]

InitCart ==
    /\ users = [n \in 1..2 |-> SeedUser(n, {"USER"})]
    /\ Empty

\* ... and permissions have been granted to them
InitPerm ==
    /\ \E p1, p2 \in SUBSET Permissions :
          users = [n \in 1..2 |-> SeedUser(n, IF n = 1 THEN p1 ELSE p2)]
    /\ Empty

Next ==
    \/ Signup
    \/ Signin
    \/ signout
    \/ RequestReset
    \/ ResetPassword
    \/ Tick

NextCart ==
    \/ AddToCartUnauthenticated
    \/ AddToCartQuery
    \/ AddToCartWrite
    \/ RemoveFromCart

NextPerm == UpdatePermissions

Spec == Init /\ [][Next]_vars
SpecCart == InitCart /\ [][NextCart]_vars
SpecPerm == InitPerm /\ [][NextPerm]_vars
(***************************************************************************)
(* Properties of the cart resolvers, checked under SpecCart.               *)
(***************************************************************************)
Pairs == UserIds \X Items

\* C1: for a user and an item with no CartItem, n addToCart calls run one
\* after the other leave exactly one CartItem for the pair, with quantity n
\* (adds counts the calls that completed since the pair last had no row;
\* disturbed holds the pairs for which two calls ever overlapped).
SequentialAddsAccumulate ==
    \A pair \in Pairs :
        pair \notin disturbed =>
            IF adds[pair] = 0
            THEN RowsOf(pair[1], pair[2]) = {}
            ELSE \E id \in CartIds :
                    /\ RowsOf(pair[1], pair[2]) = {id}
                    /\ cartItems[id].quantity = adds[pair]

TwoSequentialAddsDone ==
    \E pair \in Pairs :
        /\ pair \notin disturbed
        /\ adds[pair] = 2
        /\ resp.op = "addToCart"
        /\ resp.error = ""
        /\ \E id \in CartIds : /\ RowsOf(pair[1], pair[2]) = {id}
                               /\ cartItems[id].quantity = 2

\* C2: a removeFromCart by a caller who is not the owner of the CartItem
\* (the unauthenticated caller included) fails with "Cheating :)", issues no
\* deleteCartItem and leaves the CartItem in storage.
NonOwnerRemoveRefused ==
    [][resp'.op = "removeFromCart" =>
       \A caller \in Callers, id \in CartIds :
          (removeFromCart(caller, id) /\ cartItems[id].user # caller) =>
              /\ resp'.error = "Cheating :)"
              /\ resp'.dbCalls = <<"query.cartItem">>
              /\ cartItems' = cartItems
              /\ id \in DOMAIN cartItems']_vars

NonOwnerRemoveTried ==
    /\ resp.op = "removeFromCart"
    /\ resp.caller # NoUser
    /\ resp.args.id \in CartIds
    /\ cartItems[resp.args.id].user # resp.caller
    /\ resp.error = "Cheating :)"

\* C8: two rows for the same (user, item) pair exist only after two
\* addToCart calls for that pair overlapped, and such a state is reachable.
DuplicatesOnlyAfterOverlap ==
    \A pair \in Pairs :
        Cardinality(RowsOf(pair[1], pair[2])) > 1 => pair \in disturbed

DuplicateRowsReached ==
    \E pair \in Pairs :
        /\ Cardinality(RowsOf(pair[1], pair[2])) = 2
        /\ pair \in disturbed
        /\ \A id \in RowsOf(pair[1], pair[2]) :
              cartItems[id].quantity = DefaultQuantity

HashOf(hash, password) == \E salt \in Salts : hash = bcryptHash(password, salt)
SessionCookieFor(id) == SetCookie(jwtSign([userId |-> id]))
InvalidOrExpired == "This token is either invalid or expired!"
HoldersOf(resetToken) ==
    {id \in UserIds : users[id].resetToken = Some(resetToken)}

\* C4: signin with the password matching the stored hash of the user with
\* that email returns that user and sets the token cookie for that user's
\* id; with another password it fails with "Invalid Password!" and sets no
\* cookie, and no cookie is set when no user has the email.
SigninChecksPassword ==
    [][resp'.op = "signin" =>
       \A email \in Emails, password \in Passwords :
          signin(email, password) =>
              IF UsersWithEmail(email) = {}
              THEN resp'.error # "" /\ resp'.cookie = NoCookie
              ELSE \A id \in UsersWithEmail(email) :
                      IF HashOf(users[id].password, password)
                      THEN /\ resp'.error = ""
                           /\ resp'.value = ReturnsUser(id)
                           /\ resp'.cookie = SessionCookieFor(id)
                      ELSE /\ resp'.error = "Invalid Password!"
                           /\ resp'.cookie = NoCookie]_vars

SignedInSecondUser ==
    /\ resp.op = "signin"
    /\ resp.error = ""
    /\ resp.value = ReturnsUser(2)
    /\ resp.cookie = SessionCookieFor(2)

\* C5: a signup with an unused email creates a user whose permissions are
\* exactly {USER}, whatever the arguments contain, and sets the session
\* cookie for the id of the new user.
SignupGrantsOnlyUser ==
    [][resp'.op = "signup" =>
       \A args \in SignupArgs, salt \in Salts :
          (signup(args, salt) /\ UsersWithEmail(args.email) = {}) =>
              /\ Len(users') = Len(users) + 1
              /\ users'[Len(users')].email = args.email
              /\ users'[Len(users')].permissions = {"USER"}
              /\ resp'.error = ""
              /\ resp'.cookie = SessionCookieFor(Len(users'))]_vars

SignedUpAskingForAdmin ==
    /\ resp.op = "signup"
    /\ resp.error = ""
    /\ "permissions" \in DOMAIN resp.args
    /\ users[resp.value.user].permissions = {"USER"}

\* C6: a resetPassword made right after requestReset (the clock has not
\* moved), with the stored token and matching passwords, succeeds: the
\* password becomes the hash of the new one, resetToken and
\* resetTokenExpiry become null, the session cookie of that user is set;
\* and a resetPassword with the token of the reset that has just succeeded
\* fails.
ResetRoundTrip ==
    [][resp'.op = "resetPassword" =>
       \A args \in {resp'.args}, salt \in Salts :
          (resetPassword(args, salt) /\ args.password = args.confirmPassword) =>
              /\ \A id \in HoldersOf(args.resetToken) :
                    users[id].resetTokenExpiry = Some(now + Hour) =>
                        /\ resp'.error = ""
                        /\ resp'.value = ReturnsUser(id)
                        /\ HashOf(users'[id].password, args.password)
                        /\ users'[id].resetToken = Null
                        /\ users'[id].resetTokenExpiry = Null
                        /\ resp'.cookie = SessionCookieFor(id)
              /\ ( /\ resp.op = "resetPassword"
                   /\ resp.error = ""
                   /\ resp.args.resetToken = args.resetToken )
                 => /\ resp'.error = InvalidOrExpired
                    /\ users' = users]_vars

PasswordChangedByReset ==
    /\ resp.op = "resetPassword"
    /\ resp.error = ""
    /\ resp.args.password = "pw2"
    /\ \E id \in UserIds :
          /\ resp.value = ReturnsUser(id)
          /\ HashOf(users[id].password, "pw2")
          /\ users[id].resetToken = Null

\* C7: resetPassword with a token stored on no user fails with the
\* invalid-or-expired error, changes no user and sets no cookie; with
\* password # confirmPassword it fails before any database call.
ResetRejectsUnknownToken ==
    [][resp'.op = "resetPassword" =>
       \A args \in {resp'.args}, salt \in Salts :
          resetPassword(args, salt) =>
              IF args.password # args.confirmPassword
              THEN /\ resp'.error = "Your passwords don't match"
                   /\ resp'.dbCalls = <<>>
                   /\ users' = users
                   /\ resp'.cookie = NoCookie
              ELSE HoldersOf(args.resetToken) = {} =>
                      /\ resp'.error = InvalidOrExpired
                      /\ users' = users
                      /\ resp'.cookie = NoCookie]_vars

UnknownTokenRejected ==
    /\ resp.op = "resetPassword"
    /\ resp.error = InvalidOrExpired
    /\ HoldersOf(resp.args.resetToken) = {}
    /\ \E id \in UserIds :
          /\ users[id].resetToken # Null
          /\ users[id].resetTokenExpiry[1] >= now

\* C9 as stated: when sendMail fails, requestReset for an existing user
\* still returns the acknowledgement, and the token and expiry stay stored.
MailFailureNotSurfaced ==
    [][resp'.op = "requestReset" =>
       \A email \in Emails, mailOk \in BOOLEAN :
          (requestReset(email, mailOk) /\ UsersWithEmail(email) # {}) =>
              /\ resp'.error = ""
              /\ resp'.value = ReturnsMessage("Thank you!")
              /\ \A id \in UsersWithEmail(email) :
                    /\ users'[id].resetToken = Some(nextToken)
                    /\ users'[id].resetTokenExpiry = Some(now + Hour)]_vars

\* C9 amended: when sendMail fails, requestReset fails with the error of
\* the send and returns no acknowledgement, and the token and expiry written
\* before the send stay stored.
MailFailureSurfacedTokenKept ==
    [][resp'.op = "requestReset" =>
       \A email \in Emails :
          (requestReset(email, FALSE) /\ UsersWithEmail(email) # {}) =>
              /\ resp'.error = "sendMail rejected"
              /\ resp'.value = Nothing
              /\ \A id \in UsersWithEmail(email) :
                    /\ users'[id].resetToken = Some(nextToken)
                    /\ users'[id].resetTokenExpiry = Some(now + Hour)]_vars

MailFailedTokenStored ==
    /\ resp.op = "requestReset"
    /\ resp.error = "sendMail rejected"
    /\ \E id \in UsersWithEmail(resp.args.email) :
          /\ users[id].resetToken # Null
          /\ users[id].resetTokenExpiry = Some(now + Hour)

\* C10: a resetPassword made after the stored expiry of the token has
\* passed fails with the invalid-or-expired error and leaves the user as it
\* was.
ExpiredTokenRejected ==
    [][resp'.op = "resetPassword" =>
       \A args \in {resp'.args}, salt \in Salts :
          ( /\ resetPassword(args, salt)
            /\ args.password = args.confirmPassword
            /\ \E id \in HoldersOf(args.resetToken) :
                  users[id].resetTokenExpiry[1] < now ) =>
              /\ resp'.error = InvalidOrExpired
              /\ users' = users]_vars
====
